---- MODULE Spec2Model ----
(***************************************************************************)
(* Model of the solar charge switch: the control loop of                   *)
(* solar_charge_switch.py (main), its helpers (is_night,                   *)
(* calculate_thresholds, the rolling power buffer), the shared             *)
(* configuration (get_config / update_config / save_config) and the web    *)
(* handlers of web_app.py that write it.                                   *)
(*                                                                         *)
(* Conventions                                                             *)
(*  - A Python Optional is a sequence: None is <<>>, a value x is <<x>>.   *)
(*  - Times are whole seconds of wall-clock time (time.time()); the time   *)
(*    of day of a time t is HMSOf(t).                                      *)
(*  - safety_margin and hysteresis are fractions in the code; the model    *)
(*    holds them in percent (87 for 0.87).                                 *)
(*  - The configuration is a dict of dicts.  get_config returns a shallow  *)
(*    copy, so every nested section is the one live object all threads     *)
(*    share; the model holds the nested keys flat in cfg.                  *)
(*  - The web handlers are threads of the loop's process: _config and its  *)
(*    lock are the state they share with the loop.  One web request is in  *)
(*    flight at a time.                                                    *)
(*  - The loop's reads of auto_mode and manual_socket_state (lines 294,    *)
(*    295) are one step; each key write of update_config is a step.        *)
(***************************************************************************)
EXTENDS Integers, Sequences, FiniteSets, TLC

VARIABLES
    cfg,                 \* _config: the live nested configuration sections
    running,             \* _running
    pc,                  \* position of main(): "top", "body", "sleep", "done"
    clock,               \* wall-clock time, seconds
    now,                 \* main: now (taken at the top of the iteration)
    auto_mode,           \* main: auto_mode
    manual_state,        \* main: manual_state (Optional bool)
    power_threshold_on,  \* main: power_threshold_on
    power_threshold_off, \* main: power_threshold_off
    buffer_size,         \* main: buffer_size (deque maxlen)
    power_buffer,        \* main: power_buffer
    stable_on_since,     \* main: stable_on_since (Optional time)
    stable_off_since,    \* main: stable_off_since (Optional time)
    last_switch_time,    \* main: last_switch_time (Optional time)
    socket_on,           \* main: socket_on, the tracked load state
    csv_row,             \* the last row log_csv appended (Optional)
    updates,             \* update_config: the (key, value) pairs still to write
    updBase,             \* history: the configuration when the update in flight began (Optional)
    saved,               \* the configuration of the last save_config that succeeded (the file)
    pre,                 \* history: the loop's state at the start of the cycle's body
    cyc,                 \* history: what the cycle's body did
    ncycles,             \* history: iterations completed
    nupdates,            \* history: web requests accepted
    cfgVer,              \* history: number of writes to the live configuration
    verRead,             \* history: cfgVer when the iteration read the configuration
    doneVer              \* history: cfgVer read by the cycle whose manual request succeeded

loopVars == <<now, auto_mode, manual_state, power_threshold_on, power_threshold_off,
              buffer_size, power_buffer, stable_on_since, stable_off_since,
              last_switch_time, socket_on, csv_row>>
webVars  == <<updates, nupdates, updBase, saved>>
histVars == <<pre, cyc, ncycles, verRead, doneVer>>
vars == <<cfg, running, pc, clock, cfgVer, loopVars, webVars, histVars>>

----------------------------------------------------------------------------
(* Bounds of the model *)

MaxCycles  == 3      \* iterations of the control loop explored
MaxUpdates == 1      \* web requests explored

----------------------------------------------------------------------------
(* Optional values and small helpers *)

None == <<>>
Some(x) == <<x>>
Val(o) == o[1]

\* Python's `a or b` on an Optional number: None and 0 are both falsy.
OrElse(o, t) == IF o = None \/ Val(o) = 0 THEN t ELSE Val(o)

\* int(): truncation toward zero of the rational n / d, d > 0.
IntOf(n, d) == IF n >= 0 THEN n \div d ELSE -((-n) \div d)

HMS(h, m, s) == (h * 60 + m) * 60 + s
\* datetime.now().time() of a wall-clock second, as <<hour, minute, second>>.
HMSOf(t) == <<(t \div 3600) % 24, (t \div 60) % 60, t % 60>>

\* datetime.time comparison: lexicographic on (hour, minute, second).
TimeLT(a, b) ==
    \/ a[1] < b[1]
    \/ a[1] = b[1] /\ a[2] < b[2]
    \/ a[1] = b[1] /\ a[2] = b[2] /\ a[3] < b[3]
TimeLE(a, b) == a = b \/ TimeLT(a, b)

\* dtime(*map(int, "HH:MM".split(":"))): the parsed pair with seconds 0.
dtime(hm) == <<hm[1], hm[2], 0>>

RECURSIVE SumSeq(_)
SumSeq(s) == IF s = <<>> THEN 0 ELSE Head(s) + SumSeq(Tail(s))

RECURSIVE Insert(_, _)
Insert(x, s) ==
    IF s = <<>> THEN <<x>>
    ELSE IF x <= Head(s) THEN <<x>> \o s
    ELSE <<Head(s)>> \o Insert(x, Tail(s))

RECURSIVE Sorted(_)
Sorted(s) == IF s = <<>> THEN <<>> ELSE Insert(Head(s), Sorted(Tail(s)))

\* statistics.mean, as the fraction <<numerator, denominator>>.
mean(s) == <<SumSeq(s), Len(s)>>

\* statistics.median, as a fraction: the middle value, or the average of the two
\* middle values of an even count.
median(s) ==
    LET t == Sorted(s)
        n == Len(s)
    IN  IF n % 2 = 1 THEN <<t[(n + 1) \div 2], 1>>
        ELSE <<t[n \div 2] + t[n \div 2 + 1], 2>>

\* fraction q compared with the integer k
FracGE(q, k) == q[1] >= k * q[2]
FracLE(q, k) == q[1] <= k * q[2]
FracLT(q, k) == q[1] <  k * q[2]

\* deque(maxlen=n).append(x): with maxlen 0 nothing is kept; at capacity the
\* oldest element is dropped.
DequeAppend(buf, maxlen, x) ==
    IF maxlen = 0 THEN buf
    ELSE IF Len(buf) >= maxlen THEN Append(Tail(buf), x)
    ELSE Append(buf, x)

----------------------------------------------------------------------------
(* Configuration *)

\* get_config(): a shallow copy of _config; its nested sections are the live ones.
get_config == cfg

\* Mutant of is_night: the end of the window taken as inclusive.
is_night_EndInclusive(t) ==
    LET c == get_config
        start_time == dtime(c.night_start)
        end_time   == dtime(c.night_end)
        tod        == HMSOf(t)
    IN  IF ~c.night_enabled THEN FALSE
        ELSE IF TimeLT(start_time, end_time)
             THEN TimeLE(start_time, tod) /\ TimeLE(tod, end_time)
             ELSE TimeLE(start_time, tod) \/ TimeLE(tod, end_time)

\* is_night(now): reads the night window from the configuration.
is_night(t) ==
    LET c == get_config
        start_time == dtime(c.night_start)
        end_time   == dtime(c.night_end)
        tod        == HMSOf(t)
    IN  IF ~c.night_enabled THEN FALSE
        ELSE IF TimeLT(start_time, end_time)
             THEN TimeLE(start_time, tod) /\ TimeLT(tod, end_time)
             ELSE TimeLE(start_time, tod) \/ TimeLT(tod, end_time)

\* Mutant of calculate_thresholds: the OFF threshold is taken from the product,
\* not from the truncated ON threshold.
calculate_thresholds_OffFromProduct ==
    LET c == get_config
        product == c.grid_voltage_v * c.max_current_a * c.safety_margin
    IN  <<IntOf(product, 100), IntOf(product * (100 - c.hysteresis), 10000)>>

\* calculate_thresholds(): <<on_threshold, off_threshold>>.
calculate_thresholds ==
    LET c == get_config
        on_threshold  == IntOf(c.grid_voltage_v * c.max_current_a * c.safety_margin, 100)
        off_threshold == IntOf(on_threshold * (100 - c.hysteresis), 100)
    IN  <<on_threshold, off_threshold>>

----------------------------------------------------------------------------
(* Inputs *)

\* Power readings, W: the OFF threshold (1700) and the ON threshold (2000) of the
\* configurations below; a window of two holds their mean, between the two.
Powers == {1700, 2000}
PowerReads == {None} \cup {Some(p) : p \in Powers}

\* require_stable_on_s, require_stable_off_s, min_on_time_s, window_s
SamplingConfigs ==
    { [window_s |-> 20, sample_interval_s |-> 10, require_stable_on_s |-> 20,
       require_stable_off_s |-> 10, min_on_time_s |-> 30],
      [window_s |-> 10, sample_interval_s |-> 10, require_stable_on_s |-> 0,
       require_stable_off_s |-> 0, min_on_time_s |-> 30],
      [window_s |-> 5, sample_interval_s |-> 10, require_stable_on_s |-> 10,
       require_stable_off_s |-> 0, min_on_time_s |-> 0] }

\* night_mode.start and night_mode.end, parsed
NightWindow == << <<22, 0>>, <<6, 0>> >>

MkConfig(s, night_enabled, w, auto, manual) ==
    [ auto_mode |-> auto, manual_socket_state |-> manual,
      night_enabled |-> night_enabled, night_start |-> w[1], night_end |-> w[2],
      grid_voltage_v |-> 250, max_current_a |-> 8, safety_margin |-> 100,
      hysteresis |-> 15,
      window_s |-> s.window_s, sample_interval_s |-> s.sample_interval_s,
      require_stable_on_s |-> s.require_stable_on_s,
      require_stable_off_s |-> s.require_stable_off_s,
      min_on_time_s |-> s.min_on_time_s ]

NoCycle == [ branch |-> "none", reqs |-> <<>>, time |-> 0, power |-> None,
             avg |-> <<0, 1>>, med |-> <<0, 1>>, night |-> FALSE,
             min_on |-> 0, req_on |-> 0, req_off |-> 0, stopped |-> FALSE ]
NoPre == [ socket_on |-> FALSE, stable_on_since |-> None, stable_off_since |-> None,
           last_switch_time |-> None, power_buffer |-> <<>>, doneVer |-> -1 ]

----------------------------------------------------------------------------
(* The Hue socket *)

\* The outcomes of the set_hue_state calls of one iteration, in call order.
Outcomes == [1..2 -> BOOLEAN]

\* set_hue_state(hue, state) inside the loop: one PUT, True iff it succeeded.  The
\* request is recorded in s.reqs.  The socket itself is outside the program (the
\* Hue bridge, its app and its button also switch it) and is not held here.
set_hue_state(s, state, ok) ==
    [s EXCEPT !.reqs = Append(@, <<state, ok>>)]

\* The outcome of the next set_hue_state call of the iteration.
NextOk(s, oks) == oks[Len(s.reqs) + 1]

----------------------------------------------------------------------------
(* One iteration of main()'s loop body, block by block.  s is the loop's state  *)
(* (locals, socket, history of the iteration); s.done says that the iteration  *)
(* has reached its `continue`.  t is time.time().                              *)

\* The state the body starts from.  Of the history fields, night is is_night(now)
\* and min_on, req_on, req_off the sampling values, as the configuration stands
\* when the body runs; stopped says that _running is already false then.
BodyStart ==
    [ socket_on |-> socket_on, stable_on_since |-> stable_on_since,
      stable_off_since |-> stable_off_since, last_switch_time |-> last_switch_time,
      power_buffer |-> power_buffer, csv_row |-> csv_row,
      done |-> FALSE, branch |-> "none", reqs |-> <<>>, time |-> clock,
      power |-> None, avg |-> <<0, 1>>, med |-> <<0, 1>>, night |-> is_night(now),
      min_on |-> get_config.min_on_time_s,
      req_on |-> get_config.require_stable_on_s,
      req_off |-> get_config.require_stable_off_s,
      stopped |-> ~running ]

\* Mutant of ManualBlock: the tracked state is updated whether or not the
\* request succeeded.
ManualBlock_IgnoreFailure(s, oks, t) ==
    IF ~auto_mode /\ manual_state # None
    THEN LET target == Val(manual_state)
             ok == oks[Len(s.reqs) + 1]
             s1 == IF s.socket_on # target
                   THEN [s EXCEPT !.reqs = Append(@, <<target, ok>>),
                                  !.socket_on = target,
                                  !.last_switch_time = Some(t)]
                   ELSE s
         IN  [s1 EXCEPT !.done = TRUE, !.branch = "manual"]
    ELSE s

\* Mutant of ManualBlock: a successful request is not tracked.
ManualBlock_NoTrack(s, oks, t) ==
    IF ~auto_mode /\ manual_state # None
    THEN LET target == Val(manual_state)
             ok == oks[Len(s.reqs) + 1]
             s1 == IF s.socket_on # target
                   THEN [s EXCEPT !.reqs = Append(@, <<target, ok>>)]
                   ELSE s
         IN  [s1 EXCEPT !.done = TRUE, !.branch = "manual"]
    ELSE s

\* Lines 297-305: manual control override.
ManualBlock(s, oks, t) ==
    IF ~auto_mode /\ manual_state # None
    THEN LET target == Val(manual_state)
             ok == NextOk(s, oks)
             s1 == IF s.socket_on # target
                   THEN LET r == set_hue_state(s, target, ok)
                        IN  IF ok THEN [r EXCEPT !.socket_on = target,
                                                 !.last_switch_time = Some(t)]
                            ELSE r
                   ELSE s
         IN  [s1 EXCEPT !.done = TRUE, !.branch = "manual"]
    ELSE s

\* Mutant of ReadBlock: a failed read empties the buffer.
ReadBlock_FailureDropsSamples(s, power) ==
    IF s.done THEN s
    ELSE IF power = None
    THEN [s EXCEPT !.done = TRUE, !.branch = "read_failed", !.power_buffer = <<>>]
    ELSE LET buf   == DequeAppend(s.power_buffer, buffer_size, Val(power))
             avg_w == IF Len(buf) > 0 THEN mean(buf) ELSE <<Val(power), 1>>
             med_w == IF Len(buf) > 0 THEN median(buf) ELSE <<Val(power), 1>>
         IN  [s EXCEPT !.power_buffer = buf, !.power = power,
                       !.avg = avg_w, !.med = med_w,
                       !.csv_row = Some([ts |-> now, power |-> Val(power),
                                         avg |-> avg_w, med |-> med_w,
                                         state |-> s.socket_on,
                                         auto_mode |-> auto_mode])]

\* Lines 307-317: read the power, append it to the buffer, mean and median, CSV row.
ReadBlock(s, power) ==
    IF s.done THEN s
    ELSE IF power = None
    THEN [s EXCEPT !.done = TRUE, !.branch = "read_failed"]
    ELSE LET buf   == DequeAppend(s.power_buffer, buffer_size, Val(power))
             avg_w == IF Len(buf) > 0 THEN mean(buf) ELSE <<Val(power), 1>>
             med_w == IF Len(buf) > 0 THEN median(buf) ELSE <<Val(power), 1>>
         IN  [s EXCEPT !.power_buffer = buf, !.power = power,
                       !.avg = avg_w, !.med = med_w,
                       !.csv_row = Some([ts |-> now, power |-> Val(power),
                                         avg |-> avg_w, med |-> med_w,
                                         state |-> s.socket_on,
                                         auto_mode |-> auto_mode])]

\* Mutant of NightBlock: the `continue` is missing, the automatic logic follows.
NightBlock_NoContinue(s, oks, t) ==
    IF s.done THEN s
    ELSE IF auto_mode /\ is_night(now)
    THEN LET ok == oks[Len(s.reqs) + 1]
         IN  IF s.socket_on
             THEN LET r == [s EXCEPT !.reqs = Append(@, <<FALSE, ok>>),
                                     !.branch = "night"]
                  IN  IF ok THEN [r EXCEPT !.socket_on = FALSE,
                                           !.last_switch_time = Some(t)]
                      ELSE r
             ELSE [s EXCEPT !.branch = "night"]
    ELSE s

\* Mutant of NightBlock: the night cutoff waits for the minimum on time.
NightBlock_RespectsMinOn(s, oks, t) ==
    IF s.done THEN s
    ELSE IF auto_mode /\ is_night(now)
    THEN LET ok == oks[Len(s.reqs) + 1]
             can_turn_off == \/ s.last_switch_time = None
                             \/ t - Val(s.last_switch_time) >= get_config.min_on_time_s
             s1 == IF s.socket_on /\ can_turn_off
                   THEN LET r == [s EXCEPT !.reqs = Append(@, <<FALSE, ok>>)]
                        IN  IF ok THEN [r EXCEPT !.socket_on = FALSE,
                                                 !.last_switch_time = Some(t)]
                            ELSE r
                   ELSE s
         IN  [s1 EXCEPT !.done = TRUE, !.branch = "night"]
    ELSE s

\* Lines 324-332: night mode (only in auto mode).
NightBlock(s, oks, t) ==
    IF s.done THEN s
    ELSE IF auto_mode /\ is_night(now)
    THEN LET ok == NextOk(s, oks)
             s1 == IF s.socket_on
                   THEN LET r == set_hue_state(s, FALSE, ok)
                        IN  IF ok THEN [r EXCEPT !.socket_on = FALSE,
                                                 !.last_switch_time = Some(t)]
                            ELSE r
                   ELSE s
         IN  [s1 EXCEPT !.done = TRUE, !.branch = "night"]
    ELSE s

\* Lines 334-337: no automatic control outside auto mode.
NotAutoBlock(s) ==
    IF s.done THEN s
    ELSE IF ~auto_mode THEN [s EXCEPT !.done = TRUE, !.branch = "not_auto"]
    ELSE s

\* Mutant of AutoOnBlock: every qualifying sample restarts the timer.
AutoOnBlock_RestartsTimer(s, oks, t) ==
    LET c == get_config
        s0 == [s EXCEPT !.branch = "auto_on"]
    IN  IF FracGE(s.avg, power_threshold_on)
        THEN LET since == t
                 s1 == [s0 EXCEPT !.stable_on_since = Some(since)]
             IN  IF t - since >= c.require_stable_on_s
                 THEN LET ok == oks[Len(s1.reqs) + 1]
                          r  == [s1 EXCEPT !.reqs = Append(@, <<TRUE, ok>>)]
                          s2 == IF ok THEN [r EXCEPT !.socket_on = TRUE,
                                                     !.last_switch_time = Some(t)]
                                ELSE r
                      IN  [s2 EXCEPT !.stable_on_since = None]
                 ELSE s1
        ELSE [s0 EXCEPT !.stable_on_since = None]

\* Mutant of AutoOnBlock: a sample below the threshold leaves the timer running.
AutoOnBlock_NoReset(s, oks, t) ==
    LET c == get_config
        s0 == [s EXCEPT !.branch = "auto_on"]
    IN  IF FracGE(s.avg, power_threshold_on)
        THEN LET since == OrElse(s.stable_on_since, t)
                 s1 == [s0 EXCEPT !.stable_on_since = Some(since)]
             IN  IF t - since >= c.require_stable_on_s
                 THEN LET ok == oks[Len(s1.reqs) + 1]
                          r  == [s1 EXCEPT !.reqs = Append(@, <<TRUE, ok>>)]
                          s2 == IF ok THEN [r EXCEPT !.socket_on = TRUE,
                                                     !.last_switch_time = Some(t)]
                                ELSE r
                      IN  [s2 EXCEPT !.stable_on_since = None]
                 ELSE s1
        ELSE s0

\* Mutant of AutoOnBlock: the stable time must exceed require_stable_on_s.
AutoOnBlock_StrictElapsed(s, oks, t) ==
    LET c == get_config
        s0 == [s EXCEPT !.branch = "auto_on"]
    IN  IF FracGE(s.avg, power_threshold_on)
        THEN LET since == OrElse(s.stable_on_since, t)
                 s1 == [s0 EXCEPT !.stable_on_since = Some(since)]
             IN  IF t - since > c.require_stable_on_s
                 THEN LET ok == oks[Len(s1.reqs) + 1]
                          r  == [s1 EXCEPT !.reqs = Append(@, <<TRUE, ok>>)]
                          s2 == IF ok THEN [r EXCEPT !.socket_on = TRUE,
                                                     !.last_switch_time = Some(t)]
                                ELSE r
                      IN  [s2 EXCEPT !.stable_on_since = None]
                 ELSE s1
        ELSE [s0 EXCEPT !.stable_on_since = None]

\* Lines 340-350: the load is OFF.
AutoOnBlock(s, oks, t) ==
    LET c == get_config
        s0 == [s EXCEPT !.branch = "auto_on"]
    IN  IF FracGE(s.avg, power_threshold_on)
        THEN LET since == OrElse(s.stable_on_since, t)
                 s1 == [s0 EXCEPT !.stable_on_since = Some(since)]
             IN  IF t - since >= c.require_stable_on_s
                 THEN LET ok == NextOk(s1, oks)
                          r  == set_hue_state(s1, TRUE, ok)
                          s2 == IF ok THEN [r EXCEPT !.socket_on = TRUE,
                                                     !.last_switch_time = Some(t)]
                                ELSE r
                      IN  [s2 EXCEPT !.stable_on_since = None]
                 ELSE s1
        ELSE [s0 EXCEPT !.stable_on_since = None]

\* Mutant of AutoOffBlock: the minimum on time is not looked at.
AutoOffBlock_NoGuard(s, oks, t) ==
    LET c == get_config
        s0 == [s EXCEPT !.branch = "auto_off"]
    IN  IF FracLE(s.avg, power_threshold_off)
        THEN LET since == OrElse(s.stable_off_since, t)
                 s1 == [s0 EXCEPT !.stable_off_since = Some(since)]
             IN  IF t - since >= c.require_stable_off_s
                 THEN LET ok == oks[Len(s1.reqs) + 1]
                          r  == [s1 EXCEPT !.reqs = Append(@, <<FALSE, ok>>)]
                          s2 == IF ok THEN [r EXCEPT !.socket_on = FALSE,
                                                     !.last_switch_time = Some(t)]
                                ELSE r
                      IN  [s2 EXCEPT !.stable_off_since = None]
                 ELSE s1
        ELSE [s0 EXCEPT !.stable_off_since = None]

\* Lines 352-366: the load is ON.
AutoOffBlock(s, oks, t) ==
    LET c == get_config
        s0 == [s EXCEPT !.branch = "auto_off"]
        can_turn_off == \/ s.last_switch_time = None
                        \/ t - Val(s.last_switch_time) >= c.min_on_time_s
    IN  IF FracLE(s.avg, power_threshold_off) /\ can_turn_off
        THEN LET since == OrElse(s.stable_off_since, t)
                 s1 == [s0 EXCEPT !.stable_off_since = Some(since)]
             IN  IF t - since >= c.require_stable_off_s
                 THEN LET ok == NextOk(s1, oks)
                          r  == set_hue_state(s1, FALSE, ok)
                          s2 == IF ok THEN [r EXCEPT !.socket_on = FALSE,
                                                     !.last_switch_time = Some(t)]
                                ELSE r
                      IN  [s2 EXCEPT !.stable_off_since = None]
                 ELSE s1
        ELSE [s0 EXCEPT !.stable_off_since = None]

\* Lines 339-366: automatic control logic.
AutoBlock(s, oks, t) ==
    IF s.done THEN s
    ELSE IF ~s.socket_on THEN AutoOnBlock(s, oks, t)
    ELSE AutoOffBlock(s, oks, t)

\* Lines 297-366: the whole body on one power reading, block after block (each
\* block's result is bound once, as a value, before the next block uses it).
RunCycle(s, power, oks, t) ==
    CHOOSE r \in
        { AutoBlock(s4, oks, t) :
            s4 \in { NotAutoBlock(s3) :
              s3 \in { NightBlock(s2, oks, t) :
                s2 \in { ReadBlock(s1, power) :
                  s1 \in { ManualBlock(s0, oks, t) : s0 \in {s} } } } } } : TRUE

----------------------------------------------------------------------------
(* main(): start-up and the control loop *)

ControlInits == { <<TRUE, None>>, <<FALSE, Some(TRUE)>> }

\* Lines 265-286: the state when the loop is entered.  The socket state is read
\* once (get_hue_state(hue) or False: either value); the buffer size is fixed here.
Init ==
    /\ \E sc \in SamplingConfigs, ci \in ControlInits :
          cfg = MkConfig(sc, TRUE, NightWindow, ci[1], ci[2])
    /\ running = TRUE
    /\ pc = "top"
    /\ clock = HMS(21, 59, 30)
    /\ now = clock
    /\ auto_mode = cfg.auto_mode
    /\ manual_state = cfg.manual_socket_state
    /\ power_threshold_on = calculate_thresholds[1]
    /\ power_threshold_off = calculate_thresholds[2]
    /\ buffer_size = cfg.window_s \div cfg.sample_interval_s
    /\ power_buffer = <<>>
    /\ stable_on_since = None
    /\ stable_off_since = None
    /\ last_switch_time = None
    /\ socket_on \in BOOLEAN
    /\ csv_row = None
    /\ updates = <<>>
    /\ updBase = None
    /\ saved = cfg
    /\ pre = NoPre
    /\ cyc = NoCycle
    /\ ncycles = 0
    /\ nupdates = 0
    /\ cfgVer = 0
    /\ verRead = 0
    /\ doneVer = -1

\* Mutant of LoopTop: the loop test does not look at _running.
LoopTop_IgnoresRunning ==
    /\ pc = "top"
    /\ now' = clock
    /\ power_threshold_on' = calculate_thresholds[1]
    /\ power_threshold_off' = calculate_thresholds[2]
    /\ auto_mode' = get_config.auto_mode
    /\ manual_state' = get_config.manual_socket_state
    /\ verRead' = cfgVer
    /\ pc' = "body"
    /\ UNCHANGED <<cfg, running, clock, cfgVer, webVars, buffer_size,
                   power_buffer, stable_on_since, stable_off_since, last_switch_time,
                   socket_on, csv_row, pre, cyc, ncycles, doneVer>>

\* Lines 288-295: the loop test and the iteration's reads of the configuration.
LoopTop ==
    /\ pc = "top"
    /\ running
    /\ now' = clock
    /\ power_threshold_on' = calculate_thresholds[1]
    /\ power_threshold_off' = calculate_thresholds[2]
    /\ auto_mode' = get_config.auto_mode
    /\ manual_state' = get_config.manual_socket_state
    /\ verRead' = cfgVer
    /\ pc' = "body"
    /\ UNCHANGED <<cfg, running, clock, cfgVer, webVars, buffer_size,
                   power_buffer, stable_on_since, stable_off_since, last_switch_time,
                   socket_on, csv_row, pre, cyc, ncycles, doneVer>>

\* Line 288 with _running false, line 370: the loop ends.
LoopExit ==
    /\ pc = "top"
    /\ ~running
    /\ pc' = "done"
    /\ UNCHANGED <<cfg, running, clock, cfgVer, loopVars, webVars, histVars>>

\* Lines 297-366 on the power reading `power` with actuator outcomes `oks`.  The
\* outcome of a call the iteration does not make is not enumerated: it is True.
BodyOn(power, oks) ==
    /\ pc = "body"
    /\ \E s \in {RunCycle(BodyStart, power, oks, clock)} :
           /\ \A i \in DOMAIN oks : i > Len(s.reqs) => oks[i]
           /\ socket_on' = s.socket_on
           /\ stable_on_since' = s.stable_on_since
           /\ stable_off_since' = s.stable_off_since
           /\ last_switch_time' = s.last_switch_time
           /\ power_buffer' = s.power_buffer
           /\ csv_row' = s.csv_row
           /\ cyc' = [ branch |-> s.branch, reqs |-> s.reqs, time |-> s.time,
                       power |-> s.power, avg |-> s.avg, med |-> s.med,
                       night |-> s.night, min_on |-> s.min_on,
                       req_on |-> s.req_on, req_off |-> s.req_off,
                       stopped |-> s.stopped ]
           /\ doneVer' = IF s.branch = "manual" /\ s.reqs # <<>> /\ s.reqs[1][2]
                         THEN verRead ELSE doneVer
    /\ pre' = [ socket_on |-> socket_on, stable_on_since |-> stable_on_since,
                stable_off_since |-> stable_off_since,
                last_switch_time |-> last_switch_time,
                power_buffer |-> power_buffer, doneVer |-> doneVer ]
    /\ pc' = "sleep"
    /\ UNCHANGED <<cfg, running, clock, cfgVer, webVars, now, auto_mode, manual_state,
                   power_threshold_on, power_threshold_off, buffer_size, ncycles,
                   verRead>>

Body == \E power \in PowerReads, oks \in Outcomes : BodyOn(power, oks)

\* time.sleep(config["sampling"]["sample_interval_s"]), the last statement of every
\* path through the body.  Time advances by the sleep alone: the iteration's own
\* duration is taken as zero.
Sleep ==
    /\ pc = "sleep"
    /\ ncycles < MaxCycles
    /\ clock' = clock + get_config.sample_interval_s
    /\ ncycles' = ncycles + 1
    /\ pre' = NoPre
    /\ cyc' = NoCycle
    /\ pc' = "top"
    /\ UNCHANGED <<cfg, running, cfgVer, loopVars, webVars, verRead, doneVer>>

\* signal_handler: SIGINT / SIGTERM.
signal_handler ==
    /\ running
    /\ pc # "done"
    /\ running' = FALSE
    /\ UNCHANGED <<cfg, pc, clock, cfgVer, loopVars, webVars, histVars>>

----------------------------------------------------------------------------
(* web_app.py: the handlers that write the configuration.                     *)
(* update_config(updates) takes the shallow copy (get_config) and writes its   *)
(* keys one at a time into the nested sections, which are the live ones, with  *)
(* no lock held; save_config then writes the file and rebinds _config to the   *)
(* copy, whose sections are the live ones already; when the write fails the    *)
(* sections stay as written.  A handler's step is its first key write; the     *)
(* keys left are written by update_config_next.                                *)

\* save_config(new_config), lines 68-85: the configuration last saved, after a
\* call with outcome ok (False: the backup or the write raised).
save_config(new_config, ok) == IF ok THEN new_config ELSE saved

\* update_config, lines 89-98, entered with `upd`: the first key is written; when
\* it is the only one, save_config follows with outcome ok.
update_config(upd, ok) ==
    /\ updates = <<>>
    /\ pc # "done"
    /\ nupdates < MaxUpdates
    /\ nupdates' = nupdates + 1
    /\ cfg' = [cfg EXCEPT ![Head(upd)[1]] = Head(upd)[2]]
    /\ cfgVer' = cfgVer + 1
    /\ updates' = Tail(upd)
    /\ updBase' = IF Tail(upd) = <<>> THEN None ELSE Some(cfg)
    /\ saved' = IF Tail(upd) = <<>> THEN save_config(cfg', ok) ELSE saved

\* update_config, lines 90-98: the next key of the request in flight is written;
\* after the last one save_config follows, with an outcome among `saves`.
update_config_next_of(saves) ==
    /\ updates # <<>>
    /\ cfg' = [cfg EXCEPT ![Head(updates)[1]] = Head(updates)[2]]
    /\ cfgVer' = cfgVer + 1
    /\ updates' = Tail(updates)
    /\ updBase' = IF Tail(updates) = <<>> THEN None ELSE updBase
    /\ \E ok \in saves :
          saved' = IF Tail(updates) = <<>> THEN save_config(cfg', ok) ELSE saved
    /\ UNCHANGED <<running, pc, clock, loopVars, histVars, nupdates>>

\* api_auto_mode: POST /api/auto_mode.  Disabling captures the socket's state,
\* when get_hue_state can read it.
api_auto_mode_of(saves) ==
    \E enabled \in BOOLEAN, current_state \in {None, Some(TRUE), Some(FALSE)},
       ok \in saves :
        /\ update_config(<< <<"auto_mode", enabled>> >> \o
                         (IF ~enabled /\ current_state # None
                          THEN << <<"manual_socket_state", current_state>> >>
                          ELSE <<>>), ok)
        /\ UNCHANGED <<running, pc, clock, loopVars, histVars>>

\* api_control_socket: POST /api/socket.  The handler switches the socket itself
\* and, when that succeeded, records the manual state (when it failed it changes
\* nothing).
api_control_socket_of(saves) ==
    \E state \in BOOLEAN, ok \in saves :
        /\ update_config(<< <<"manual_socket_state", Some(state)>>,
                            <<"auto_mode", FALSE>> >>, ok)
        /\ UNCHANGED <<running, pc, clock, loopVars, histVars>>

\* api_update_config: POST /api/config, one key of the request (each key is an
\* update_config call of its own), drawn from the <<key, value>> pairs `posts`;
\* a value equal to the current one is not posted.
api_update_config_of(posts, saves) ==
    \E kv \in posts, ok \in saves :
        /\ cfg[kv[1]] # kv[2]
        /\ update_config(<<kv>>, ok)
        /\ UNCHANGED <<running, pc, clock, loopVars, histVars>>

\* The posts explored with the loop: night mode switched on or off.
NightPosts == { <<"night_enabled", b>> : b \in BOOLEAN }

\* With the loop every save succeeds: the outcome of a save changes nothing the
\* loop reads (the file is read at start-up only).
Saves == {TRUE}

update_config_next == update_config_next_of(Saves)
api_auto_mode      == api_auto_mode_of(Saves)
api_control_socket == api_control_socket_of(Saves)
api_update_config  == api_update_config_of(NightPosts, Saves)

----------------------------------------------------------------------------
(* Specification *)

Next ==
    \/ LoopTop
    \/ LoopExit
    \/ Body
    \/ Sleep
    \/ signal_handler
    \/ api_auto_mode
    \/ api_control_socket
    \/ api_update_config
    \/ update_config_next

Spec == Init /\ [][Next]_vars

----------------------------------------------------------------------------
(* The night window alone: one iteration of the loop at a chosen time of day   *)
(* under a chosen night configuration.                                         *)

NightTimes == { HMS(23, 59, 0), HMS(23, 59, 59), HMS(24, 0, 0), HMS(5, 59, 59),
                HMS(6, 0, 0), HMS(12, 0, 0), HMS(21, 59, 59), HMS(22, 0, 0) }
NightBounds == { <<6, 0>>, <<12, 0>>, <<22, 0>> }

InitNight ==
    /\ \E sc \in SamplingConfigs, ne \in BOOLEAN, a \in NightBounds, b \in NightBounds :
          cfg = MkConfig(sc, ne, <<a, b>>, TRUE, None)
    /\ running = TRUE
    /\ pc = "top"
    /\ clock \in NightTimes
    /\ now = clock
    /\ auto_mode = cfg.auto_mode
    /\ manual_state = cfg.manual_socket_state
    /\ power_threshold_on = calculate_thresholds[1]
    /\ power_threshold_off = calculate_thresholds[2]
    /\ buffer_size = cfg.window_s \div cfg.sample_interval_s
    /\ power_buffer = <<>>
    /\ stable_on_since = None
    /\ stable_off_since = None
    /\ last_switch_time = None
    /\ socket_on \in BOOLEAN
    /\ csv_row = None
    /\ updates = <<>>
    /\ updBase = None
    /\ saved = cfg
    /\ pre = NoPre
    /\ cyc = NoCycle
    /\ ncycles = 0
    /\ nupdates = 0
    /\ cfgVer = 0
    /\ verRead = 0
    /\ doneVer = -1

NextNight == LoopTop \/ Body

SpecNight == InitNight /\ [][NextNight]_vars

----------------------------------------------------------------------------
(* The end-to-end scenario of the debounce: thresholds 2000 W / 1700 W,        *)
(* require_stable_on_s 30, samples every 10 s exactly, load OFF, automatic     *)
(* mode, no night window; the samples 2100, 2200, 2050, 2100 arrive first.     *)

E2ESamples == <<2100, 2200, 2050, 2100>>
E2EStart == HMS(12, 0, 0)

E2EConfigs ==
    { [window_s |-> w, sample_interval_s |-> 10, require_stable_on_s |-> 30,
       require_stable_off_s |-> off, min_on_time_s |-> m] :
         w \in {10, 20, 30, 60}, off \in {0, 10}, m \in {0, 30} }

InitE2E ==
    /\ \E sc \in E2EConfigs : cfg = MkConfig(sc, FALSE, NightWindow, TRUE, None)
    /\ running = TRUE
    /\ pc = "top"
    /\ clock = E2EStart
    /\ now = clock
    /\ auto_mode = cfg.auto_mode
    /\ manual_state = cfg.manual_socket_state
    /\ power_threshold_on = calculate_thresholds[1]
    /\ power_threshold_off = calculate_thresholds[2]
    /\ buffer_size = cfg.window_s \div cfg.sample_interval_s
    /\ power_buffer = <<>>
    /\ stable_on_since = None
    /\ stable_off_since = None
    /\ last_switch_time = None
    /\ socket_on = FALSE
    /\ csv_row = None
    /\ updates = <<>>
    /\ updBase = None
    /\ saved = cfg
    /\ pre = NoPre
    /\ cyc = NoCycle
    /\ ncycles = 0
    /\ nupdates = 0
    /\ cfgVer = 0
    /\ verRead = 0
    /\ doneVer = -1

\* The readings the scenario allows in iteration n (counted from 0).
E2EFeed(n) == IF n < Len(E2ESamples) THEN {Some(E2ESamples[n + 1])} ELSE PowerReads

BodyE2E == \E power \in E2EFeed(ncycles), oks \in Outcomes : BodyOn(power, oks)

NextE2E == LoopTop \/ BodyE2E \/ Sleep

SpecE2E == InitE2E /\ [][NextE2E]_vars

----------------------------------------------------------------------------
(* The thresholds alone: the loop under a chosen electrical configuration,     *)
(* valid or not (load_config checks nothing but the JSON syntax), in automatic *)
(* mode with no night window and no debounce.                                  *)

\* grid_voltage_v, max_current_a, safety_margin (percent), hysteresis (percent)
Voltages  == {0, 23, 230}
Currents  == {-1, 1, 8}
Margins   == {0, 50, 87, 100}
Hystereses == {0, 10, 15}

ThrSampling == [window_s |-> 10, sample_interval_s |-> 10, require_stable_on_s |-> 0,
                require_stable_off_s |-> 0, min_on_time_s |-> 0]

\* Power readings around the thresholds these configurations give (0, 11, 1600 W).
ThrPowers == {Some(0), Some(10), Some(2000)}

InitThr ==
    /\ \E v \in Voltages, i \in Currents, m \in Margins, h \in Hystereses :
          cfg = [MkConfig(ThrSampling, FALSE, NightWindow, TRUE, None)
                    EXCEPT !.grid_voltage_v = v, !.max_current_a = i,
                           !.safety_margin = m, !.hysteresis = h]
    /\ running = TRUE
    /\ pc = "top"
    /\ clock = HMS(12, 0, 0)
    /\ now = clock
    /\ auto_mode = cfg.auto_mode
    /\ manual_state = cfg.manual_socket_state
    /\ power_threshold_on = calculate_thresholds[1]
    /\ power_threshold_off = calculate_thresholds[2]
    /\ buffer_size = cfg.window_s \div cfg.sample_interval_s
    /\ power_buffer = <<>>
    /\ stable_on_since = None
    /\ stable_off_since = None
    /\ last_switch_time = None
    /\ socket_on \in BOOLEAN
    /\ csv_row = None
    /\ updates = <<>>
    /\ updBase = None
    /\ saved = cfg
    /\ pre = NoPre
    /\ cyc = NoCycle
    /\ ncycles = 0
    /\ nupdates = 0
    /\ cfgVer = 0
    /\ verRead = 0
    /\ doneVer = -1

BodyThr == \E power \in ThrPowers, oks \in Outcomes : BodyOn(power, oks)

NextThr == LoopTop \/ BodyThr

SpecThr == InitThr /\ [][NextThr]_vars

----------------------------------------------------------------------------
(* Shutdown: the loop and the signal handler alone.  The loop is the main      *)
(* thread of the process: while a step of it is possible it is eventually      *)
(* taken (every collaborator call has a timeout and returns; a signal handler  *)
(* that returns normally lets time.sleep run to its end).                      *)

NextStop == LoopTop \/ LoopExit \/ Body \/ Sleep \/ signal_handler

SpecStop ==
    /\ Init
    /\ [][NextStop]_vars
    /\ WF_vars(LoopTop) /\ WF_vars(LoopExit) /\ WF_vars(Body) /\ WF_vars(Sleep)

----------------------------------------------------------------------------
(* Reload: the loop with the web handlers posting electrical parameters, the   *)
(* night window and the debounce and minimum-on durations, around noon.        *)

ReloadSampling == [window_s |-> 10, sample_interval_s |-> 10, require_stable_on_s |-> 0,
                   require_stable_off_s |-> 0, min_on_time_s |-> 30]

\* With max_current_a 4 the thresholds are 1000 W / 850 W; night_start 12:00
\* makes the window 12:00-06:00.
ReloadPosts ==
    { <<"max_current_a", 4>>, <<"hysteresis", 0>>,
      <<"night_start", <<12, 0>> >>, <<"night_enabled", FALSE>>,
      <<"require_stable_on_s", 20>>, <<"require_stable_off_s", 10>>,
      <<"min_on_time_s", 0>> }

InitReload ==
    /\ cfg = MkConfig(ReloadSampling, TRUE, NightWindow, TRUE, None)
    /\ running = TRUE
    /\ pc = "top"
    /\ clock = HMS(11, 59, 40)
    /\ now = clock
    /\ auto_mode = cfg.auto_mode
    /\ manual_state = cfg.manual_socket_state
    /\ power_threshold_on = calculate_thresholds[1]
    /\ power_threshold_off = calculate_thresholds[2]
    /\ buffer_size = cfg.window_s \div cfg.sample_interval_s
    /\ power_buffer = <<>>
    /\ stable_on_since = None
    /\ stable_off_since = None
    /\ last_switch_time = None
    /\ socket_on \in BOOLEAN
    /\ csv_row = None
    /\ updates = <<>>
    /\ updBase = None
    /\ saved = cfg
    /\ pre = NoPre
    /\ cyc = NoCycle
    /\ ncycles = 0
    /\ nupdates = 0
    /\ cfgVer = 0
    /\ verRead = 0
    /\ doneVer = -1

\* Here a save succeeds or fails.
update_config_next_reload == update_config_next_of(BOOLEAN)
api_auto_mode_reload      == api_auto_mode_of(BOOLEAN)
api_control_socket_reload == api_control_socket_of(BOOLEAN)
api_update_config_reload  == api_update_config_of(ReloadPosts, BOOLEAN)

NextReload ==
    \/ LoopTop
    \/ Body
    \/ Sleep
    \/ api_auto_mode_reload
    \/ api_control_socket_reload
    \/ api_update_config_reload
    \/ update_config_next_reload

SpecReload == InitReload /\ [][NextReload]_vars

----------------------------------------------------------------------------
(* Progress of the automatic switch-ON: the loop and the signal handler at     *)
(* noon, far from the night window, with the fairness of the loop's steps.     *)

InitLive ==
    /\ \E sc \in SamplingConfigs, ci \in ControlInits :
          cfg = MkConfig(sc, TRUE, NightWindow, ci[1], ci[2])
    /\ running = TRUE
    /\ pc = "top"
    /\ clock = HMS(12, 0, 0)
    /\ now = clock
    /\ auto_mode = cfg.auto_mode
    /\ manual_state = cfg.manual_socket_state
    /\ power_threshold_on = calculate_thresholds[1]
    /\ power_threshold_off = calculate_thresholds[2]
    /\ buffer_size = cfg.window_s \div cfg.sample_interval_s
    /\ power_buffer = <<>>
    /\ stable_on_since = None
    /\ stable_off_since = None
    /\ last_switch_time = None
    /\ socket_on \in BOOLEAN
    /\ csv_row = None
    /\ updates = <<>>
    /\ updBase = None
    /\ saved = cfg
    /\ pre = NoPre
    /\ cyc = NoCycle
    /\ ncycles = 0
    /\ nupdates = 0
    /\ cfgVer = 0
    /\ verRead = 0
    /\ doneVer = -1

SpecLive ==
    /\ InitLive
    /\ [][NextStop]_vars
    /\ WF_vars(LoopTop) /\ WF_vars(LoopExit) /\ WF_vars(Body) /\ WF_vars(Sleep)

----------------------------------------------------------------------------
(* Properties.  A cycle is one iteration of the loop; AtCycleEnd holds between *)
(* the end of its body and its sleep, where pre is the loop's state before the *)
(* body and cyc what the body did.                                             *)

AtCycleEnd == pc = "sleep"

\* The requests of the cycle, in order, each <<requested state, succeeded>>.
Requested(i) == cyc.reqs[i][1]
Succeeded(i) == cyc.reqs[i][2]
NoRequest == cyc.reqs = <<>>
OneRequest(state) == Len(cyc.reqs) = 1 /\ Requested(1) = state

\* C1: in every iteration of the control loop at most one set_hue_state request
\* is issued, whatever the mode, night status, power reading and actuator outcome
\* (a failed request is not retried in the same cycle).
C1_AtMostOneRequest == AtCycleEnd => Len(cyc.reqs) <= 1

\* C1 witness: a cycle whose single request failed.
C1_Witness == AtCycleEnd /\ Len(cyc.reqs) = 1 /\ ~Succeeded(1)

\* C2 (as claimed): a failed request of the automatic ON (OFF) evaluation leaves
\* stable_on_since (stable_off_since) at the value the evaluation used, so that
\* the next qualifying cycle re-issues the request at once.
C2_TimerKeptOnFailure ==
    (AtCycleEnd /\ Len(cyc.reqs) = 1 /\ ~Succeeded(1)) =>
        /\ cyc.branch = "auto_on" =>
              stable_on_since = Some(OrElse(pre.stable_on_since, cyc.time))
        /\ cyc.branch = "auto_off" =>
              stable_off_since = Some(OrElse(pre.stable_off_since, cyc.time))

\* C3: socket_on and last_switch_time change only in the body of a cycle whose
\* request succeeded, and socket_on then becomes the requested state; every other
\* step (a failed request, no request, any other action) leaves both unchanged.
C3_LoadStateOnlyOnSuccess ==
    [][ IF pc = "body" /\ pc' = "sleep" /\ cyc'.reqs # <<>>
           /\ cyc'.reqs[Len(cyc'.reqs)][2]
        THEN /\ socket_on' = cyc'.reqs[Len(cyc'.reqs)][1]
             /\ last_switch_time' = Some(clock)
        ELSE UNCHANGED <<socket_on, last_switch_time>> ]_vars

\* C3 witness: a cycle whose request succeeded and changed the tracked state.
C3_Witness ==
    AtCycleEnd /\ Len(cyc.reqs) = 1 /\ Succeeded(1) /\ socket_on # pre.socket_on

\* C4: in an automatic ON evaluation (load OFF, automatic mode, no night), an
\* average below the ON threshold produces no request and clears stable_on_since;
\* an average at or above it with the timer unset starts the timer at this
\* cycle's time; and a switch-ON request is issued only when the timer has run
\* for require_stable_on_s.
C4_DebounceReset ==
    (AtCycleEnd /\ cyc.branch = "auto_on") =>
        /\ FracLT(cyc.avg, power_threshold_on) =>
              NoRequest /\ stable_on_since = None
        /\ (FracGE(cyc.avg, power_threshold_on) /\ pre.stable_on_since = None) =>
              IF cyc.req_on <= 0 THEN OneRequest(TRUE)
              ELSE NoRequest /\ stable_on_since = Some(cyc.time)
        /\ ~NoRequest =>
              /\ OneRequest(TRUE)
              /\ FracGE(cyc.avg, power_threshold_on)
              /\ cyc.time - OrElse(pre.stable_on_since, cyc.time) >= cyc.req_on

\* C4 witness: the timer was running, not yet for require_stable_on_s, and a low
\* average cleared it.
C4_Witness ==
    /\ AtCycleEnd /\ cyc.branch = "auto_on"
    /\ pre.stable_on_since # None
    /\ cyc.time - Val(pre.stable_on_since) < cyc.req_on
    /\ FracLT(cyc.avg, power_threshold_on)
    /\ stable_on_since = None

\* The cycle runs with the load ON and earlier than min_on_time_s after the
\* switch.
InGuardWindow ==
    /\ pre.socket_on
    /\ pre.last_switch_time # None
    /\ cyc.time - Val(pre.last_switch_time) < cyc.min_on

\* C5: in an automatic OFF evaluation earlier than min_on_time_s after the load
\* was switched ON, no switch-OFF request is issued and stable_off_since is left
\* unset, whatever the power and also with require_stable_off_s = 0; an
\* automatic switch-OFF request is only issued once the guard has passed; and no
\* cycle inside the guard window starts stable_off_since.
C5_MinOnGuard ==
    AtCycleEnd =>
        /\ (cyc.branch = "auto_off" /\ InGuardWindow) =>
              NoRequest /\ stable_off_since = None
        /\ (cyc.branch = "auto_off" /\ ~NoRequest) =>
              /\ OneRequest(FALSE)
              /\ \/ pre.last_switch_time = None
                 \/ cyc.time >= Val(pre.last_switch_time) + cyc.min_on
        /\ InGuardWindow => stable_off_since \in {None, pre.stable_off_since}

\* C5 witness: inside the guard window, low average, require_stable_off_s = 0.
C5_Witness ==
    /\ AtCycleEnd /\ cyc.branch = "auto_off"
    /\ InGuardWindow
    /\ FracLE(cyc.avg, power_threshold_off)
    /\ cyc.req_off = 0

\* C6: with auto mode off and a manual state that differs from the tracked
\* state, the cycle issues exactly one request, to the manual state, and tracks
\* it when it succeeds; once such a request has succeeded, no later cycle that
\* reads the same configuration issues any request.
C6_ManualOverride ==
    AtCycleEnd =>
        /\ (~auto_mode /\ manual_state # None /\ pre.socket_on # Val(manual_state)) =>
              /\ OneRequest(Val(manual_state))
              /\ Succeeded(1) => socket_on = Val(manual_state)
        /\ pre.doneVer = verRead => NoRequest

\* C6 witness: a cycle after the manual request succeeded, configuration unchanged.
C6_Witness == AtCycleEnd /\ pre.doneVer = verRead /\ cyc.branch = "manual"

\* C7: in a cycle in automatic mode with the night window active and a power
\* sample obtained, a load that is ON gets exactly one switch-OFF request (no
\* debounce, no minimum on time), a load that is OFF gets none, and no switch-ON
\* request is issued.
C7_NightSuppression ==
    (AtCycleEnd /\ auto_mode /\ cyc.night /\ cyc.power # None) =>
        IF pre.socket_on THEN OneRequest(FALSE) ELSE NoRequest

\* C7 witness: night switch-OFF inside the minimum on time, power high.
C7_Witness ==
    /\ AtCycleEnd /\ auto_mode /\ cyc.night /\ cyc.power # None
    /\ pre.socket_on /\ OneRequest(FALSE)
    /\ pre.last_switch_time # None
    /\ cyc.time - Val(pre.last_switch_time) < cyc.min_on
    /\ FracGE(cyc.avg, power_threshold_on)

\* The night window as the claim states it, on minutes of the day.
MinuteOfDay(t) == (t \div 60) % 1440
MinuteOf(hm) == hm[1] * 60 + hm[2]
NightClaimed(t, c) ==
    /\ c.night_enabled
    /\ IF MinuteOf(c.night_start) < MinuteOf(c.night_end)
       THEN MinuteOf(c.night_start) <= MinuteOfDay(t)
            /\ MinuteOfDay(t) < MinuteOf(c.night_end)
       ELSE MinuteOfDay(t) >= MinuteOf(c.night_start)
            \/ MinuteOfDay(t) < MinuteOf(c.night_end)

\* C8: is_night is false when night mode is disabled; enabled with start < end it
\* is start <= now < end; enabled with start >= end it is now >= start or
\* now < end.  For 22:00-06:00 it is true at 23:59, 00:00 and 05:59 and false at
\* 06:00 and 21:59.
C8_IsNight ==
    AtCycleEnd =>
        /\ cyc.night = NightClaimed(now, cfg)
        /\ (cfg.night_enabled /\ cfg.night_start = <<22, 0>> /\ cfg.night_end = <<6, 0>>)
           => /\ MinuteOfDay(now) \in {23 * 60 + 59, 0, 5 * 60 + 59} => cyc.night
              /\ MinuteOfDay(now) \in {6 * 60, 21 * 60 + 59} => ~cyc.night

\* C8 witness: 05:59:59 in the enabled window 22:00-06:00 is night.
C8_Witness ==
    /\ AtCycleEnd /\ cfg.night_enabled
    /\ cfg.night_start = <<22, 0>> /\ cfg.night_end = <<6, 0>>
    /\ now = HMS(5, 59, 59) /\ cyc.night

\* C9: in the end-to-end scenario the samples at t = 0, 10, 20 produce no
\* request, the timer running from t = 0 (20 s at t = 20), and the sample at
\* t = 30 produces the switch-ON request.
C9_EndToEnd ==
    AtCycleEnd =>
        /\ cyc.time = E2EStart + 10 * ncycles
        /\ ncycles < 3 =>
              /\ NoRequest /\ ~socket_on
              /\ stable_on_since = Some(E2EStart)
        /\ ncycles = 2 => cyc.time - Val(stable_on_since) = 20
        /\ ncycles = 3 => OneRequest(TRUE) /\ cyc.time = E2EStart + 30

\* C9 witness: the load is switched ON by the fourth sample.
C9_Witness == AtCycleEnd /\ ncycles = 3 /\ OneRequest(TRUE) /\ Succeeded(1) /\ socket_on

\* The last n elements of s (all of s when it has fewer).
LastN(s, n) == IF Len(s) <= n THEN s ELSE SubSeq(s, Len(s) - n + 1, Len(s))
Max(a, b) == IF a >= b THEN a ELSE b
SameFrac(p, q) == p[1] * q[2] = q[1] * p[2]

\* C10 (as claimed): after each append the buffer holds the most recent samples,
\* at most max(1, window_s / sample_interval_s) of them, and the mean and median
\* used are those of the samples held.
C10_WindowAsClaimed ==
    (AtCycleEnd /\ cyc.power # None) =>
        LET capacity == Max(1, cfg.window_s \div cfg.sample_interval_s)
        IN  /\ Len(power_buffer) <= capacity
            /\ power_buffer = LastN(Append(pre.power_buffer, Val(cyc.power)), capacity)
            /\ power_buffer # <<>>
            /\ SameFrac(cyc.avg, mean(power_buffer))
            /\ SameFrac(cyc.med, median(power_buffer))

\* The electrical configuration is valid: positive voltage and current,
\* safety_margin in (0, 1], hysteresis in [0, 1).
ValidElectrical(c) ==
    /\ c.grid_voltage_v > 0 /\ c.max_current_a > 0
    /\ c.safety_margin > 0 /\ c.safety_margin <= 100
    /\ c.hysteresis >= 0 /\ c.hysteresis < 100

\* floor of the rational n / d, d > 0
Floor(n, d) == n \div d

\* C11: for a valid electrical configuration the thresholds the iteration uses
\* are on = floor(grid_voltage_v * max_current_a * safety_margin) and
\* off = floor(on * (1 - hysteresis)), with 0 <= off <= on.
C11_Thresholds ==
    (pc \in {"body", "sleep"} /\ ValidElectrical(cfg)) =>
        /\ power_threshold_on =
              Floor(cfg.grid_voltage_v * cfg.max_current_a * cfg.safety_margin, 100)
        /\ power_threshold_off = Floor(power_threshold_on * (100 - cfg.hysteresis), 100)
        /\ 0 <= power_threshold_off
        /\ power_threshold_off <= power_threshold_on

\* C11 witness: a product with a fraction (23 V, 1 A, 0.5: 11.5 W) and a
\* hysteresis of 0.1: the thresholds are 11 and 9.
C11_Witness ==
    /\ pc = "body" /\ ValidElectrical(cfg)
    /\ cfg.grid_voltage_v = 23 /\ cfg.max_current_a = 1
    /\ cfg.safety_margin = 50 /\ cfg.hysteresis = 10
    /\ power_threshold_on = 11 /\ power_threshold_off = 9

\* C12 (as claimed): with a non-positive grid_voltage_v, max_current_a or
\* safety_margin the loop reaches no control decision: no iteration evaluates
\* the automatic logic or issues a request.
C12_FailFast ==
    (AtCycleEnd /\ (cfg.grid_voltage_v <= 0 \/ cfg.max_current_a <= 0
                    \/ cfg.safety_margin <= 0)) =>
        /\ cyc.branch \notin {"auto_on", "auto_off"}
        /\ NoRequest

\* The configuration c with the writes upds applied in order.
RECURSIVE ApplyAll(_, _)
ApplyAll(c, upds) ==
    IF upds = <<>> THEN c
    ELSE ApplyAll([c EXCEPT ![Head(upds)[1]] = Head(upds)[2]], Tail(upds))

\* C13 (as claimed): an iteration that reads the configuration while an
\* update_config call is writing its keys reads auto_mode and
\* manual_socket_state either both as they were before the call or both as the
\* call leaves them.
C13_NoPartialRead ==
    [][ (pc = "top" /\ pc' = "body" /\ updates # <<>>) =>
           LET before == Val(updBase)
               after  == ApplyAll(cfg, updates)
           IN  <<auto_mode', manual_state'>> \in
                  { <<before.auto_mode, before.manual_socket_state>>,
                    <<after.auto_mode, after.manual_socket_state>> } ]_vars

\* C14: a stop request does not interrupt the cycle it arrives in (a body that
\* starts with _running already false still runs to its end: it reads, decides,
\* issues its request and, when it has a sample, appends its CSV row); no
\* iteration starts once _running is false; and the loop then terminates (within
\* the iterations explored).
C14_GracefulStop ==
    /\ [][ (pc = "body" /\ ~running /\ pc' # pc) =>
              /\ pc' = "sleep"
              /\ cyc'.stopped /\ cyc'.branch # "none"
              /\ cyc'.power # None => csv_row' # None /\ Val(csv_row').ts = now ]_vars
    /\ [][ ~running => ~(pc = "top" /\ pc' = "body") ]_vars
    /\ (~running /\ ncycles < MaxCycles) ~> (pc = "done")

\* C14 witness: the stop request arrived before the body ran; the cycle took its
\* sample, switched the load and wrote its row.
C14_Witness ==
    /\ AtCycleEnd /\ cyc.stopped /\ ~running
    /\ cyc.power # None /\ Val(csv_row).ts = now
    /\ Len(cyc.reqs) = 1 /\ Succeeded(1) /\ socket_on # pre.socket_on

\* The thresholds of the configuration c.
ThresholdOn(c) == Floor(c.grid_voltage_v * c.max_current_a * c.safety_margin, 100)
ThresholdOff(c) == Floor(ThresholdOn(c) * (100 - c.hysteresis), 100)

\* The cycle's decision is the one the configuration c prescribes.
DecidedBy(c) ==
    /\ cyc.branch = "manual" <=> (~c.auto_mode /\ c.manual_socket_state # None)
    /\ cyc.branch = "night" <=>
          (c.auto_mode /\ cyc.power # None /\ NightClaimed(now, c))
    /\ cyc.branch = "auto_on" =>
          LET high    == FracGE(cyc.avg, ThresholdOn(c))
              elapsed == cyc.time - OrElse(pre.stable_on_since, cyc.time)
          IN  /\ c.auto_mode /\ ~pre.socket_on
              /\ ~NoRequest <=> (high /\ elapsed >= c.require_stable_on_s)
              /\ stable_on_since # None <=> (high /\ elapsed < c.require_stable_on_s)
    /\ cyc.branch = "auto_off" =>
          LET low     == FracLE(cyc.avg, ThresholdOff(c))
              can_off == \/ pre.last_switch_time = None
                         \/ cyc.time - Val(pre.last_switch_time) >= c.min_on_time_s
              elapsed == cyc.time - OrElse(pre.stable_off_since, cyc.time)
          IN  /\ c.auto_mode /\ pre.socket_on
              /\ ~NoRequest <=> (low /\ can_off /\ elapsed >= c.require_stable_off_s)
              /\ stable_off_since # None <=>
                    (low /\ can_off /\ elapsed < c.require_stable_off_s)

\* C15, what holds: every iteration reads auto_mode and manual_socket_state and computes the
\* thresholds from the configuration as it stands when the iteration starts, and
\* nothing changes them until the next iteration starts; and a cycle during which
\* the configuration is not written decides as that configuration prescribes
\* (mode, night window, thresholds, debounce and minimum-on durations), whatever
\* was written before the cycle started.
C15_HotReload ==
    /\ [][ IF pc = "top" /\ pc' = "body"
           THEN /\ auto_mode' = cfg.auto_mode
                /\ manual_state' = cfg.manual_socket_state
                /\ power_threshold_on' = ThresholdOn(cfg)
                /\ power_threshold_off' = ThresholdOff(cfg)
           ELSE UNCHANGED <<auto_mode, manual_state, power_threshold_on,
                            power_threshold_off>> ]_vars
    /\ [] ((AtCycleEnd /\ verRead = cfgVer) => DecidedBy(cfg))

\* C15 witness: max_current_a was posted as 4 before the cycle; the cycle
\* switches the load ON on an average between the new and the old ON threshold.
C15_Witness ==
    /\ AtCycleEnd /\ verRead = cfgVer /\ cfgVer > 0
    /\ cfg.max_current_a = 4 /\ power_threshold_on = 1000
    /\ cyc.branch = "auto_on" /\ FracLT(cyc.avg, 2000) /\ OneRequest(TRUE)

\* C15 (as claimed): the mode flags and the thresholds an iteration uses are
\* those of the latest successfully saved configuration when it started.
C15_UsesSavedConfig ==
    [][ (pc = "top" /\ pc' = "body" /\ updates = <<>>) =>
           /\ auto_mode' = saved.auto_mode
           /\ manual_state' = saved.manual_socket_state
           /\ power_threshold_on' = ThresholdOn(saved)
           /\ power_threshold_off' = ThresholdOff(saved) ]_vars

\* C16 (as claimed): at the end of every cycle stable_on_since is set only if
\* in that cycle the load was OFF, in automatic mode, outside the night window,
\* with the average at or above the ON threshold; stable_off_since only if the
\* load was ON, in automatic mode, outside the night window, with the average at
\* or below the OFF threshold and the minimum on time passed.  (Of a cycle with
\* no sample only the mode, night and load conditions are asked.)
C16_TimersOnlyWhileCondition ==
    AtCycleEnd =>
        /\ stable_on_since # None =>
              /\ ~pre.socket_on /\ auto_mode /\ ~cyc.night
              /\ cyc.power # None => FracGE(cyc.avg, power_threshold_on)
        /\ stable_off_since # None =>
              /\ pre.socket_on /\ auto_mode /\ ~cyc.night
              /\ cyc.power # None =>
                    /\ FracLE(cyc.avg, power_threshold_off)
                    /\ \/ pre.last_switch_time = None
                       \/ cyc.time - Val(pre.last_switch_time) >= cyc.min_on

\* C17 (as claimed): a cycle whose manual-override request succeeded leaves
\* socket_on at manual_socket_state and both stable_on_since and stable_off_since
\* unset.
C17_ManualClearsTimers ==
    (AtCycleEnd /\ cyc.branch = "manual" /\ ~NoRequest /\ Succeeded(1)) =>
        /\ socket_on = Val(manual_state)
        /\ stable_on_since = None
        /\ stable_off_since = None

\* C18: a cycle whose power read failed (get_solaredge_power returned None)
\* appends no sample, issues no request, writes no CSV row and leaves socket_on,
\* last_switch_time and both timers as they were before it.
C18_ReadFailureChangesNothing ==
    (AtCycleEnd /\ cyc.branch = "read_failed") =>
        /\ power_buffer = pre.power_buffer
        /\ NoRequest
        /\ socket_on = pre.socket_on
        /\ last_switch_time = pre.last_switch_time
        /\ stable_on_since = pre.stable_on_since
        /\ stable_off_since = pre.stable_off_since
        /\ csv_row = None \/ Val(csv_row).ts # now

\* C18 witness: the read fails in automatic mode with samples in the buffer and
\* the ON timer running.
C18_Witness ==
    /\ AtCycleEnd /\ cyc.branch = "read_failed" /\ auto_mode
    /\ power_buffer # <<>> /\ stable_on_since # None

\* C19 (as claimed): the CSV row of a cycle that obtained a sample is written
\* after the cycle's decision and request: the load state it records is
\* socket_on as the cycle leaves it.
C19_RecordAfterDecision ==
    (AtCycleEnd /\ cyc.power # None) =>
        /\ csv_row # None
        /\ Val(csv_row).ts = now
        /\ Val(csv_row).state = socket_on

\* C20 (as claimed): between cycles stable_on_since is set only with the load
\* tracked OFF and stable_off_since only with the load tracked ON, so the two
\* are never set together.
C20_TimerStateConsistency ==
    pc \in {"top", "sleep"} =>
        /\ stable_on_since # None => ~socket_on
        /\ stable_off_since # None => socket_on
        /\ ~(stable_on_since # None /\ stable_off_since # None)

\* C21 (as claimed): when update_config fails (its last key is written and
\* save_config does not save the result), the configuration get_config returns
\* afterwards is the one from before the call.
C21_FailedUpdateUnchanged ==
    [][ (updates' = <<>> /\ cfgVer' # cfgVer /\ saved' # cfg') =>
           cfg' = (IF updBase # None THEN Val(updBase) ELSE cfg) ]_vars

\* The cycle that has just ended was favourable to the automatic switch-ON:
\* automatic mode, outside the night window, a sample read, the average at or
\* above the ON threshold, every request succeeded.
FavourableCycle ==
    /\ auto_mode /\ ~cyc.night
    /\ cyc.power # None /\ FracGE(cyc.avg, power_threshold_on)
    /\ \A i \in 1..Len(cyc.reqs) : Succeeded(i)

\* The conditions of the progress claim: the loop is not asked to stop, the load
\* is OFF when the loop starts, and every cycle from the second on is favourable
\* (the first is any cycle).
FavourableRun ==
    /\ running
    /\ (ncycles = 0 /\ pc \in {"top", "body"}) => ~socket_on
    /\ (AtCycleEnd /\ ncycles >= 1) => FavourableCycle

\* A switch-ON request has been issued and has succeeded: the load is tracked ON.
SwitchedOn == AtCycleEnd /\ OneRequest(TRUE) /\ Succeeded(1) /\ socket_on

\* C22: if the loop keeps running and from the second cycle on every cycle is in
\* automatic mode outside the night window with a sample, an average at or above
\* the ON threshold and successful requests, then a switch-ON request is
\* eventually issued and the load tracked ON; and the request is issued by the
\* first cycle of an ON evaluation that finds the average at or above the
\* threshold require_stable_on_s or more after the timer started.
C22_EventuallyOn ==
    /\ ([]FavourableRun) => <>SwitchedOn
    /\ [] ( ( /\ AtCycleEnd /\ cyc.branch = "auto_on"
              /\ FracGE(cyc.avg, power_threshold_on)
              /\ cyc.time - OrElse(pre.stable_on_since, cyc.time) >= cyc.req_on )
            => /\ OneRequest(TRUE)
               /\ Succeeded(1) => socket_on )

\* C22 witness: the timer started in an earlier cycle, require_stable_on_s > 0
\* has passed, and the cycle switches the load ON.
C22_Witness ==
    /\ SwitchedOn /\ cyc.branch = "auto_on"
    /\ cyc.req_on > 0 /\ pre.stable_on_since # None
    /\ cyc.time - Val(pre.stable_on_since) >= cyc.req_on

====
